---------------------------- MODULE Spec2Model ----------------------------
(***************************************************************************)
(* A model of django-axes' AxesDatabaseHandler                             *)
(* (src/axes/handlers/database.py): the handlers user_login_failed,        *)
(* user_logged_in and user_logged_out acting on the AccessAttempt and      *)
(* AccessLog tables.                                                       *)
(*                                                                         *)
(* Two specifications share the state and the store operators:             *)
(*   Spec      every handler call runs alone, start to end (one action per *)
(*             handler);                                                   *)
(*   ConcSpec  user_login_failed calls of several workers interleave at    *)
(*             the granularity of one database query.                      *)
(*                                                                         *)
(* The helpers of axes.attempts, axes.helpers and axes.handlers.base that  *)
(* the handler calls are not part of the file; they are modelled from the  *)
(* design document (expiry sweep, identity filter, whitelist, reset).      *)
(***************************************************************************)
EXTENDS Integers, Sequences, FiniteSets

\* ------------------------------------------------------------------ bounds
\* The clock runs over 0..MaxTime.
MaxTime == 2
\* failure_limit is configured in 1..MaxLimit.
MaxLimit == 3
\* A failure is processed only while the count it writes is <= failure_limit + MaxOver.
MaxOver == 1
\* At most MaxLogs AccessLog rows are created.
MaxLogs == 2
\* Number of handler calls a behaviour of ConcSpec starts.
MaxCalls == 4

\* --------------------------------------------------------- configuration
\* cooldown_period (settings.AXES_COOLOFF_TIME), in clock ticks.
CoolOff == 1
\* The whitelisted source addresses.
Whitelist == {"ip2"}
\* identification_policy: which fields of a record identify a client.
Policies == {"username", "ip", "username_ip", "ip_user_agent"}

\* ---------------------------------------------------------------- inputs
Users == {"alice", "bob"}

Req(u, ip, ua, path, get) ==
    [username |-> u, ip_address |-> ip, user_agent |-> ua, path_info |-> path,
     http_accept |-> "text/html", get_data |-> get, post_data |-> "pw"]

\* The requests the handlers are called with: two users behind one address, who
\* are one identity under the "ip" policy and two under the others, and a user
\* coming from a whitelisted address.
Requests ==
    { Req("alice", "ip1", "ua1", "/login", "next=a"),
      Req("bob",   "ip1", "ua2", "/admin", "next=b"),
      Req("alice", "ip2", "ua1", "/login", "next=a") }

\* request=None (the default of user_login_failed's request parameter).
None == Req("", "", "", "", "")

\* logout_time IS NULL
Null == -1

separator == "---------"

VARIABLES
    cfg,        \* the settings: policy, failure_limit, reset_on_success, ...
    now,        \* the clock read by now()
    attempts,   \* the AccessAttempt table, rows in insertion order
    logs,       \* the AccessLog table, rows in insertion order
    last,       \* the most recently completed handler call and its outcome
    streak,     \* per request: failures recorded for its identity since the
                \* identity last had no row (history, for the claims)
    pc,         \* ConcSpec: each worker's position in user_login_failed
    local,      \* ConcSpec: each worker's request, attempt_time, failures_since_start
    calls,      \* ConcSpec: handler calls started so far
    expired     \* ConcSpec: whether a sweep has deleted a row (history)

vars == <<cfg, now, attempts, logs, last, streak, pc, local, calls, expired>>

\* ------------------------------------------------- the store (axes.attempts)
\* get_client_parameters: the filter a request puts on AccessAttempt rows.
Matches(policy, row, request) ==
    CASE policy = "username"      -> row.username = request.username
      [] policy = "ip"            -> row.ip_address = request.ip_address
      [] policy = "username_ip"   -> /\ row.username = request.username
                                     /\ row.ip_address = request.ip_address
      [] policy = "ip_user_agent" -> /\ row.ip_address = request.ip_address
                                     /\ row.user_agent = request.user_agent

get_cool_off_threshold(attempt_time) == attempt_time - CoolOff

\* clean_expired_user_attempts: delete the rows older than the threshold.
clean_expired_user_attempts(rows, attempt_time) ==
    SelectSeq(rows, LAMBDA r : ~(r.attempt_time < get_cool_off_threshold(attempt_time)))

\* get_user_attempts: the positions of the request's rows inside the cool off period.
get_user_attempts(rows, policy, request, attempt_time) ==
    { i \in DOMAIN rows :
        /\ Matches(policy, rows[i], request)
        /\ rows[i].attempt_time >= get_cool_off_threshold(attempt_time) }

\* reset_user_attempts: delete the request's rows (no time filter).
reset_user_attempts(rows, policy, request) ==
    SelectSeq(rows, LAMBDA r : ~Matches(policy, r, request))

\* is_whitelisted / is_user_attempt_whitelisted: the whitelist predicate.
is_whitelisted(request) == request.ip_address \in Whitelist

is_user_attempt_whitelisted(request) == request.ip_address \in Whitelist

SetMax(S) == IF S = {} THEN 0 ELSE CHOOSE x \in S : \A y \in S : y <= x


\* ------------------------------------------------ AxesDatabaseHandler, pure
\* get_failures: the maximum failures_since_start over the request's rows, or 0.
get_failures(rows, policy, request, attempt_time) ==
    SetMax({ rows[i].failures_since_start :
               i \in get_user_attempts(rows, policy, request, attempt_time) })

\* failures_since_start = 1 + self.get_failures(request, credentials, attempt_time)
failures_since_start(rows, policy, request, attempt_time) ==
    1 + get_failures(rows, policy, request, attempt_time)

\* Faulty variant: the update leaves failures_since_start as it was.
updated_row_stale_count(row, request, n, attempt_time) ==
    [row EXCEPT !.get_data = @ \o <<separator, request.get_data>>,
                !.post_data = @ \o <<separator, request.post_data>>,
                !.http_accept = request.http_accept,
                !.path_info = request.path_info,
                !.attempt_time = attempt_time]

\* Faulty variant: the update also writes the identity fields of the request.
updated_row_overwrite(row, request, n, attempt_time) ==
    [row EXCEPT !.username = request.username,
                !.ip_address = request.ip_address,
                !.user_agent = request.user_agent,
                !.get_data = @ \o <<separator, request.get_data>>,
                !.post_data = @ \o <<separator, request.post_data>>,
                !.http_accept = request.http_accept,
                !.path_info = request.path_info,
                !.failures_since_start = n,
                !.attempt_time = attempt_time]

\* The assignments of attempts.update(...): the context is appended or replaced,
\* the count and the time are set; username, ip_address, user_agent are not named.
updated_row(row, request, n, attempt_time) ==
    [row EXCEPT !.get_data = @ \o <<separator, request.get_data>>,
                !.post_data = @ \o <<separator, request.post_data>>,
                !.http_accept = request.http_accept,
                !.path_info = request.path_info,
                !.failures_since_start = n,
                !.attempt_time = attempt_time]

\* get_user_attempts(...).update(...): every row of the query set is updated.
update_attempts(rows, policy, request, n, attempt_time) ==
    [i \in DOMAIN rows |->
        IF i \in get_user_attempts(rows, policy, request, attempt_time)
        THEN updated_row(rows[i], request, n, attempt_time)
        ELSE rows[i]]

\* The row of AccessAttempt.objects.create(...).
created_row(request, n, attempt_time) ==
    [username |-> request.username,
     ip_address |-> request.ip_address,
     user_agent |-> request.user_agent,
     get_data |-> <<request.get_data>>,
     post_data |-> <<request.post_data>>,
     http_accept |-> request.http_accept,
     path_info |-> request.path_info,
     failures_since_start |-> n,
     attempt_time |-> attempt_time]

\* 3. database query: update the existing rows, or insert a new one.
insert_or_update(rows, policy, request, n, attempt_time) ==
    IF n > 1
    THEN update_attempts(rows, policy, request, n, attempt_time)
    ELSE Append(rows, created_row(request, n, attempt_time))

\* Faulty variant: the limit compared with > (one failure too late).
locks_out_late(n, failure_limit) == n > failure_limit

\* Faulty variant: the limit compared with = (only the crossing attempt is denied).
locks_out_once(n, failure_limit) == n = failure_limit

\* if failures_since_start >= settings.AXES_FAILURE_LIMIT
locks_out(n, failure_limit) == n >= failure_limit

\* user_locked_out.send('axes', request=..., username=..., ip_address=...)
user_locked_out(request) ==
    [sender |-> "axes", request |-> request,
     username |-> request.username, ip_address |-> request.ip_address]

\* How a handler call ends: by return or by raise AxesSignalPermissionDenied,
\* and what it published.  count is the number of rows a reset deleted; swept,
\* the number of rows the call's expiry sweep deleted, is set by the actions.
returned(op, request, result, n) ==
    [op |-> op, request |-> request, result |-> result, raised |-> FALSE,
     sent |-> <<>>, failures_since_start |-> n, count |-> 0, swept |-> 0]

\* Faulty variant: the denial is raised without publishing the lockout.
denied_silent(request, n) ==
    [op |-> "user_login_failed", request |-> request, result |-> "LOCKED_OUT",
     raised |-> TRUE, sent |-> <<>>,
     failures_since_start |-> n, count |-> 0, swept |-> 0]

denied(request, n) ==
    [op |-> "user_login_failed", request |-> request, result |-> "LOCKED_OUT",
     raised |-> TRUE, sent |-> <<user_locked_out(request)>>,
     failures_since_start |-> n, count |-> 0, swept |-> 0]

login_failed_outcome(request, n, failure_limit) ==
    IF locks_out(n, failure_limit)
    THEN denied(request, n)
    ELSE returned("user_login_failed", request, "RECORDED", n)

\* Faulty variant: the whitelist is consulted after the failure was recorded.
login_failed_whitelist_last(rows, c, request, attempt_time) ==
    LET swept == clean_expired_user_attempts(rows, attempt_time)
    IN  IF request = None
        THEN [attempts |-> swept,
              out |-> returned("user_login_failed", request, "NO_REQUEST", 0)]
        ELSE LET n == failures_since_start(swept, c.policy, request, attempt_time)
                 kept == insert_or_update(swept, c.policy, request, n, attempt_time)
             IN  IF is_whitelisted(request)
                 THEN [attempts |-> kept,
                       out |-> returned("user_login_failed", request, "ALLOW", 0)]
                 ELSE [attempts |-> kept,
                       out |-> login_failed_outcome(request, n, c.failure_limit)]

\* Faulty variant: the limit is checked, and the denial raised, before the
\* failure is written.
login_failed_deny_first(rows, c, request, attempt_time) ==
    LET swept == clean_expired_user_attempts(rows, attempt_time)
    IN  IF request = None
        THEN [attempts |-> swept,
              out |-> returned("user_login_failed", request, "NO_REQUEST", 0)]
        ELSE IF is_whitelisted(request)
        THEN [attempts |-> swept,
              out |-> returned("user_login_failed", request, "ALLOW", 0)]
        ELSE LET n == failures_since_start(swept, c.policy, request, attempt_time)
             IN  IF locks_out(n, c.failure_limit)
                 THEN [attempts |-> swept, out |-> denied(request, n)]
                 ELSE [attempts |-> insert_or_update(swept, c.policy, request, n,
                                                     attempt_time),
                       out |-> returned("user_login_failed", request, "RECORDED", n)]

\* Faulty variant: no expiry sweep at the start of the handler.
login_failed_no_sweep(rows, c, request, attempt_time) ==
    IF request = None
    THEN [attempts |-> rows,
          out |-> returned("user_login_failed", request, "NO_REQUEST", 0)]
    ELSE IF is_whitelisted(request)
    THEN [attempts |-> rows,
          out |-> returned("user_login_failed", request, "ALLOW", 0)]
    ELSE LET n == failures_since_start(rows, c.policy, request, attempt_time)
         IN  [attempts |-> insert_or_update(rows, c.policy, request, n, attempt_time),
              out |-> login_failed_outcome(request, n, c.failure_limit)]

\* Faulty variant: a missing request is not told apart and is recorded like
\* any other.
login_failed_none_recorded(rows, c, request, attempt_time) ==
    LET swept == clean_expired_user_attempts(rows, attempt_time)
    IN  IF is_whitelisted(request)
        THEN [attempts |-> swept,
              out |-> returned("user_login_failed", request, "ALLOW", 0)]
        ELSE LET n == failures_since_start(swept, c.policy, request, attempt_time)
             IN  [attempts |-> insert_or_update(swept, c.policy, request, n, attempt_time),
                  out |-> login_failed_outcome(request, n, c.failure_limit)]

\* user_login_failed run start to end on table `rows` at time `attempt_time`:
\* the table it leaves and the way it ends.
login_failed(rows, c, request, attempt_time) ==
    LET swept == clean_expired_user_attempts(rows, attempt_time)
    IN  IF request = None
        THEN [attempts |-> swept,
              out |-> returned("user_login_failed", request, "NO_REQUEST", 0)]
        ELSE IF is_whitelisted(request)
        THEN [attempts |-> swept,
              out |-> returned("user_login_failed", request, "ALLOW", 0)]
        ELSE LET n == failures_since_start(swept, c.policy, request, attempt_time)
             IN  [attempts |-> insert_or_update(swept, c.policy, request, n, attempt_time),
                  out |-> login_failed_outcome(request, n, c.failure_limit)]

\* The database queries of user_login_failed, in the order they run.
Queries == {"sweep", "read", "write"}

\* A query raised a database error: no statement of the handler catches it,
\* so the call ends there with that error.
store_error(request) ==
    [op |-> "user_login_failed", request |-> request, result |-> "STORE_ERROR",
     raised |-> TRUE, sent |-> <<>>,
     failures_since_start |-> 0, count |-> 0, swept |-> 0]

\* Faulty variant: a failed insert or update is caught and the limit check
\* runs all the same.
login_failed_store_error_caught(rows, c, request, attempt_time, fault) ==
    IF fault = "sweep"
    THEN [attempts |-> rows, out |-> store_error(request)]
    ELSE LET swept == clean_expired_user_attempts(rows, attempt_time)
         IN  IF request = None \/ is_whitelisted(request)
             THEN login_failed(rows, c, request, attempt_time)
             ELSE IF fault = "read"
             THEN [attempts |-> swept, out |-> store_error(request)]
             ELSE [attempts |-> swept,
                   out |-> login_failed_outcome(request,
                               failures_since_start(swept, c.policy, request,
                                                    attempt_time),
                               c.failure_limit)]

\* user_login_failed when the query `fault` raises: the statements before it
\* have run, those after it have not; a call that returns before reaching the
\* query ends as it does without the fault.
login_failed_store_error(rows, c, request, attempt_time, fault) ==
    IF fault = "sweep"
    THEN [attempts |-> rows, out |-> store_error(request)]
    ELSE IF request = None \/ is_whitelisted(request)
    THEN login_failed(rows, c, request, attempt_time)
    ELSE [attempts |-> clean_expired_user_attempts(rows, attempt_time),
          out |-> store_error(request)]

\* is_locked of AxesBaseHandler: the failures have reached the limit.
base_is_locked(rows, c, request, attempt_time) ==
    get_failures(rows, c.policy, request, attempt_time) >= c.failure_limit

\* AxesDatabaseHandler.is_locked
is_locked(rows, c, request, attempt_time) ==
    IF is_user_attempt_whitelisted(request)
    THEN FALSE
    ELSE base_is_locked(rows, c, request, attempt_time)

\* credentials = get_credentials(username): the request seen with the user's name.
with_username(request, username) == [request EXCEPT !.username = username]

\* The row of AccessLog.objects.create(...) in user_logged_in.
created_log(request, username, attempt_time) ==
    [username |-> username,
     ip_address |-> request.ip_address,
     user_agent |-> request.user_agent,
     http_accept |-> request.http_accept,
     path_info |-> request.path_info,
     attempt_time |-> attempt_time,
     trusted |-> TRUE,
     logout_time |-> Null]

\* if not settings.AXES_DISABLE_SUCCESS_ACCESS_LOG: AccessLog.objects.create(...)
logged_in_logs(rows, c, request, username, attempt_time) ==
    IF ~c.disable_success_access_log
    THEN Append(rows, created_log(request, username, attempt_time))
    ELSE rows

\* Faulty variant: the success resets the failures whatever the setting.
logged_in_attempts_always_reset(rows, c, request, username, attempt_time) ==
    reset_user_attempts(clean_expired_user_attempts(rows, attempt_time),
                        c.policy, with_username(request, username))

\* Faulty variant: the success never resets the failures.
logged_in_attempts_no_reset(rows, c, request, username, attempt_time) ==
    clean_expired_user_attempts(rows, attempt_time)

\* if settings.AXES_RESET_ON_SUCCESS: reset_user_attempts(request, credentials)
logged_in_attempts(rows, c, request, username, attempt_time) ==
    LET swept == clean_expired_user_attempts(rows, attempt_time)
    IN  IF c.reset_on_success
        THEN reset_user_attempts(swept, c.policy, with_username(request, username))
        ELSE swept

\* count = reset_user_attempts(request, credentials): the rows it deleted.
logged_in_count(rows, c, request, username, attempt_time) ==
    IF c.reset_on_success
    THEN Len(clean_expired_user_attempts(rows, attempt_time))
         - Len(logged_in_attempts(rows, c, request, username, attempt_time))
    ELSE 0

\* Faulty variant: only the most recent open row of the user is stamped.
logged_out_logs_latest_only(rows, c, username, attempt_time) ==
    LET open == { i \in DOMAIN rows :
                    rows[i].username = username /\ rows[i].logout_time = Null }
    IN  IF username # "" /\ ~c.disable_access_log
        THEN [i \in DOMAIN rows |->
                IF i \in open /\ \A j \in open : j <= i
                THEN [rows[i] EXCEPT !.logout_time = attempt_time]
                ELSE rows[i]]
        ELSE rows

\* Faulty variant: the open rows of every user are stamped.
logged_out_logs_any_user(rows, c, username, attempt_time) ==
    IF username # "" /\ ~c.disable_access_log
    THEN [i \in DOMAIN rows |->
            IF rows[i].logout_time = Null
            THEN [rows[i] EXCEPT !.logout_time = attempt_time]
            ELSE rows[i]]
    ELSE rows

\* Faulty variant: the rows of the user are stamped again when already closed.
logged_out_logs_restamp(rows, c, username, attempt_time) ==
    IF username # "" /\ ~c.disable_access_log
    THEN [i \in DOMAIN rows |->
            IF rows[i].username = username
            THEN [rows[i] EXCEPT !.logout_time = attempt_time]
            ELSE rows[i]]
    ELSE rows

\* AccessLog.objects.filter(username=..., logout_time__isnull=True).update(logout_time=...)
logged_out_logs(rows, c, username, attempt_time) ==
    IF username # "" /\ ~c.disable_access_log
    THEN [i \in DOMAIN rows |->
            IF rows[i].username = username /\ rows[i].logout_time = Null
            THEN [rows[i] EXCEPT !.logout_time = attempt_time]
            ELSE rows[i]]
    ELSE rows

\* ------------------------------------------------------------- history
\* The number of rows the update of user_logged_out changes (the value
\* update() returns).
logged_out_count(rows, c, username, attempt_time) ==
    Cardinality({ i \in DOMAIN rows :
                    logged_out_logs(rows, c, username, attempt_time)[i] # rows[i] })

\* The number of rows the expiry sweep of a call at `attempt_time` deletes.
Swept(rows, attempt_time) ==
    Len(rows) - Len(clean_expired_user_attempts(rows, attempt_time))

\* The rows of `before` that are no longer in `after` belong to these requests.
Lost(policy, before, after, r) ==
    \E i \in DOMAIN before :
        /\ Matches(policy, before[i], r)
        /\ \A j \in DOMAIN after : after[j] # before[i]

\* streak after a handler call that deleted `before` down to `kept`: 0 where rows
\* of the identity were deleted, one more where a failure of it was recorded.
NextStreak(policy, before, kept, recorded, request) ==
    [r \in Requests |->
        LET base == IF Lost(policy, before, kept, r) THEN 0 ELSE streak[r]
        IN  IF recorded /\ Matches(policy, r, request) THEN base + 1 ELSE base]

Recorded(out) == out.result \in {"RECORDED", "LOCKED_OUT"}


\* ------------------------------------------------------------- the state
Workers == {"w1", "w2"}

\* The settings of Spec: every policy, limit and reset choice, access logging off.
Settings ==
    [policy : Policies,
     failure_limit : 1..MaxLimit,
     reset_on_success : BOOLEAN,
     disable_access_log : {TRUE},
     disable_success_access_log : {TRUE}]

NoCall == returned("none", None, "NONE", 0)

Idle == [request |-> None, attempt_time |-> 0, failures_since_start |-> 0]

\* The settings of ConcSpec: no handler of it resets or logs.
ConcSettings ==
    [policy : Policies,
     failure_limit : 1..MaxLimit,
     reset_on_success : {FALSE},
     disable_access_log : {TRUE},
     disable_success_access_log : {TRUE}]

\* The settings of LogSpec: every choice of the access log flags, one policy,
\* the smallest limit and no reset.
LogSettings ==
    [policy : {"ip"},
     failure_limit : {1},
     reset_on_success : {FALSE},
     disable_access_log : BOOLEAN,
     disable_success_access_log : BOOLEAN]

InitWith(settings) ==
    /\ cfg \in settings
    /\ now = 0
    /\ attempts = <<>>
    /\ logs = <<>>
    /\ last = NoCall
    /\ streak = [r \in Requests |-> 0]
    /\ pc = [w \in Workers |-> "idle"]
    /\ local = [w \in Workers |-> Idle]
    /\ calls = 0
    /\ expired = FALSE

Init == InitWith(Settings)

\* ------------------------------------------- Spec: one handler call at a time
\* Time passes between calls.
Tick ==
    /\ now < MaxTime
    /\ now' = now + 1
    /\ UNCHANGED <<cfg, attempts, logs, last, streak, pc, local, calls, expired>>

\* user_login_failed(sender, credentials, request)
user_login_failed(request) ==
    LET done == login_failed(attempts, cfg, request, now)
    IN  /\ done.out.failures_since_start <= cfg.failure_limit + MaxOver
        /\ attempts' = done.attempts
        /\ last' = [done.out EXCEPT !.swept = Swept(attempts, now)]
        /\ streak' = NextStreak(cfg.policy, attempts,
                                clean_expired_user_attempts(attempts, now),
                                Recorded(done.out), request)
        /\ UNCHANGED <<cfg, now, logs, pc, local, calls, expired>>

\* user_logged_in(sender, request, user)
user_logged_in(request, username) ==
    /\ ~cfg.disable_success_access_log => Len(logs) < MaxLogs
    /\ logs' = logged_in_logs(logs, cfg, request, username, now)
    /\ attempts' = logged_in_attempts(attempts, cfg, request, username, now)
    /\ last' = [returned("user_logged_in", with_username(request, username), "NONE", 0)
                   EXCEPT !.count = logged_in_count(attempts, cfg, request, username, now),
                          !.swept = Swept(attempts, now)]
    /\ streak' = NextStreak(cfg.policy, attempts, attempts', FALSE, request)
    /\ UNCHANGED <<cfg, now, pc, local, calls, expired>>

\* user_logged_out(sender, request, user); the request only feeds the log line.
user_logged_out(username) ==
    /\ attempts' = clean_expired_user_attempts(attempts, now)
    /\ logs' = logged_out_logs(logs, cfg, username, now)
    /\ last' = [returned("user_logged_out", with_username(None, username), "NONE", 0)
                   EXCEPT !.count = logged_out_count(logs, cfg, username, now),
                          !.swept = Swept(attempts, now)]
    /\ streak' = NextStreak(cfg.policy, attempts, attempts', FALSE, None)
    /\ UNCHANGED <<cfg, now, pc, local, calls, expired>>

Next ==
    \/ Tick
    \/ \E request \in Requests \cup {None} : user_login_failed(request)
    \/ \E request \in Requests : user_logged_in(request, request.username)
    \/ \E username \in Users \cup {""} : user_logged_out(username)

Spec == Init /\ [][Next]_vars

\* LogSpec: the handler calls under the settings that write the access log;
\* the failures are those of one client, the logins those from one address.
LogFailures == {r \in Requests : r.username = "bob"}

LogLogins == {r \in Requests : r.ip_address = "ip1"}

LogNext ==
    \/ Tick
    \/ \E request \in LogFailures : user_login_failed(request)
    \/ \E request \in LogLogins : user_logged_in(request, request.username)
    \/ \E username \in Users \cup {""} : user_logged_out(username)

LogSpec == InitWith(LogSettings) /\ [][LogNext]_vars


\* FaultSpec: failures whose database queries may raise.
FaultSettings ==
    [policy : {"username", "ip"},
     failure_limit : 1..MaxLimit,
     reset_on_success : {FALSE},
     disable_access_log : {TRUE},
     disable_success_access_log : {TRUE}]

\* user_login_failed(sender, credentials, request) with a failing query
user_login_failed_store_error(request, fault) ==
    LET done == login_failed_store_error(attempts, cfg, request, now, fault)
    IN  /\ attempts' = done.attempts
        /\ last' = [done.out EXCEPT !.swept = Len(attempts) - Len(done.attempts)]
        /\ streak' = NextStreak(cfg.policy, attempts, done.attempts, FALSE, request)
        /\ UNCHANGED <<cfg, now, logs, pc, local, calls, expired>>

FaultNext ==
    \/ Tick
    \/ \E request \in Requests \cup {None} : user_login_failed(request)
    \/ \E request \in Requests \cup {None}, fault \in Queries :
          user_login_failed_store_error(request, fault)

FaultSpec == InitWith(FaultSettings) /\ [][FaultNext]_vars


\* --------------------------- ConcSpec: user_login_failed, one query at a time
\* attempt_time = now()
Begin(w, request) ==
    /\ pc[w] = "idle"
    /\ calls < MaxCalls
    /\ calls' = calls + 1
    /\ local' = [local EXCEPT ![w] = [request |-> request, attempt_time |-> now,
                                      failures_since_start |-> 0]]
    /\ pc' = [pc EXCEPT ![w] = "clean"]
    /\ UNCHANGED <<cfg, now, attempts, logs, last, streak, expired>>

\* 1. database query: clean_expired_user_attempts(attempt_time); then the
\* returns for a missing request and for a whitelisted client.
Clean(w) ==
    /\ pc[w] = "clean"
    /\ attempts' = clean_expired_user_attempts(attempts, local[w].attempt_time)
    /\ expired' = (expired \/ attempts' # attempts)
    /\ streak' = NextStreak(cfg.policy, attempts, attempts', FALSE, None)
    /\ IF local[w].request = None
       THEN /\ last' = returned("user_login_failed", None, "NO_REQUEST", 0)
            /\ pc' = [pc EXCEPT ![w] = "idle"]
            /\ local' = [local EXCEPT ![w] = Idle]
       ELSE IF is_whitelisted(local[w].request)
       THEN /\ last' = returned("user_login_failed", local[w].request, "ALLOW", 0)
            /\ pc' = [pc EXCEPT ![w] = "idle"]
            /\ local' = [local EXCEPT ![w] = Idle]
       ELSE /\ pc' = [pc EXCEPT ![w] = "read"]
            /\ UNCHANGED <<last, local>>
    /\ UNCHANGED <<cfg, now, logs, calls>>

\* 2. database query: failures_since_start = 1 + self.get_failures(...)
Read(w) ==
    /\ pc[w] = "read"
    /\ local' = [local EXCEPT ![w].failures_since_start =
                    failures_since_start(attempts, cfg.policy, local[w].request,
                                         local[w].attempt_time)]
    /\ pc' = [pc EXCEPT ![w] = "write"]
    /\ UNCHANGED <<cfg, now, attempts, logs, last, streak, calls, expired>>

\* 3. database query: attempts.update(...) or AccessAttempt.objects.create(...)
Write(w) ==
    /\ pc[w] = "write"
    /\ attempts' = insert_or_update(attempts, cfg.policy, local[w].request,
                                    local[w].failures_since_start, local[w].attempt_time)
    /\ streak' = NextStreak(cfg.policy, attempts, attempts, TRUE, local[w].request)
    /\ pc' = [pc EXCEPT ![w] = "check"]
    /\ UNCHANGED <<cfg, now, logs, last, local, calls, expired>>

\* The limit check: user_locked_out.send(...) and raise, or return.
Check(w) ==
    /\ pc[w] = "check"
    /\ last' = login_failed_outcome(local[w].request, local[w].failures_since_start,
                                    cfg.failure_limit)
    /\ pc' = [pc EXCEPT ![w] = "idle"]
    /\ local' = [local EXCEPT ![w] = Idle]
    /\ UNCHANGED <<cfg, now, attempts, logs, streak, calls, expired>>

ConcNext ==
    \/ Tick
    \/ \E w \in Workers, request \in Requests \cup {None} : Begin(w, request)
    \/ \E w \in Workers : Clean(w)
    \/ \E w \in Workers : Read(w)
    \/ \E w \in Workers : Write(w)
    \/ \E w \in Workers : Check(w)

ConcSpec == InitWith(ConcSettings) /\ [][ConcNext]_vars


\* ================================================================ claims
\* The rows of the identity of `request`, and those of them inside the cool
\* off period at the current time.
RowsOf(request) ==
    { i \in DOMAIN attempts : Matches(cfg.policy, attempts[i], request) }

ActiveRowsOf(request) ==
    { i \in RowsOf(request) : now - attempts[i].attempt_time <= CoolOff }

MaxCountOf(request) ==
    IF ActiveRowsOf(request) = {} THEN 0
    ELSE CHOOSE n \in { attempts[i].failures_since_start : i \in ActiveRowsOf(request) } :
            \A i \in ActiveRowsOf(request) : attempts[i].failures_since_start <= n

\* Every row of the table after the step is an unchanged row of the table before.
NoRowWritten ==
    /\ Len(attempts') <= Len(attempts)
    /\ \A j \in DOMAIN attempts' : \E i \in DOMAIN attempts : attempts[i] = attempts'[j]

\* ---- C1
\* C1: for a request that is not whitelisted, user_login_failed computes
\* new_count = 1 + (the maximum count over the identity's active rows, 0 if
\* none) and raises (LOCKED_OUT) exactly when new_count >= failure_limit,
\* otherwise it returns (RECORDED).
C1_Step ==
    \A request \in Requests :
        (~is_whitelisted(request) /\ user_login_failed(request)) =>
            LET new_count == 1 + MaxCountOf(request)
            IN  /\ last'.failures_since_start = new_count
                /\ last'.result = (IF new_count >= cfg.failure_limit
                                   THEN "LOCKED_OUT" ELSE "RECORDED")
                /\ last'.raised = (new_count >= cfg.failure_limit)

\* C1, the scenario: with failure_limit = 3 the first and second failure of a
\* fresh identity are RECORDED and the third is LOCKED_OUT.
C1_Scenario ==
    (/\ cfg.failure_limit = 3
     /\ last.op = "user_login_failed"
     /\ last.result \in {"RECORDED", "LOCKED_OUT"}
     /\ streak[last.request] \in 1..3)
        => last.result = (IF streak[last.request] = 3 THEN "LOCKED_OUT" ELSE "RECORDED")

\* C1: user_login_failed of a client that is not whitelisted counts
\* new_count = 1 + the identity's maximum active count and is LOCKED_OUT iff
\* new_count >= failure_limit, else RECORDED; at limit 3 a fresh identity's
\* failures are RECORDED, RECORDED, LOCKED_OUT.
C1_Threshold == [][C1_Step]_vars /\ []C1_Scenario

\* C1: the third failure of a fresh identity has just been denied at limit 3.
C1_Witness ==
    /\ cfg.failure_limit = 3
    /\ last.result = "LOCKED_OUT"
    /\ last.failures_since_start = 3
    /\ streak[last.request] = 3

\* ---- C2
\* An active row of the identity holds a count at or above the limit.
AtLimit(request) ==
    \E i \in ActiveRowsOf(request) :
        attempts[i].failures_since_start >= cfg.failure_limit

C2_Step ==
    \A request \in Requests :
        (~is_whitelisted(request) /\ AtLimit(request) /\ user_login_failed(request)) =>
            (last'.result = "LOCKED_OUT" /\ last'.raised /\ AtLimit(request)')

\* C2: once an identity's count is at or above failure_limit, every later
\* user_login_failed of that identity is LOCKED_OUT (and the count stays at or
\* above the limit) for as long as no reset and no expiry removed the row.
C2_StaysLocked == [][C2_Step]_vars

\* C2: a failure of an identity already at the limit has been denied.
C2_Witness ==
    /\ last.result = "LOCKED_OUT"
    /\ last.failures_since_start > cfg.failure_limit
    /\ AtLimit(last.request)

\* ---- C3
\* C3: after N failures of one identity, processed one at a time with no expiry
\* and no reset in between, 1 <= N < failure_limit, the table holds exactly one
\* row of that identity and its failures_since_start is N.
C3_OneRowCountN ==
    \A r \in Requests :
        (streak[r] >= 1 /\ streak[r] < cfg.failure_limit) =>
            /\ Cardinality(RowsOf(r)) = 1
            /\ \A i \in RowsOf(r) : attempts[i].failures_since_start = streak[r]

\* C3: two failures of one identity below a limit of 3 have been recorded.
C3_Witness ==
    /\ cfg.failure_limit = 3
    /\ last.op = "user_login_failed"
    /\ last.result = "RECORDED"
    /\ streak[last.request] = 2

\* ---- C4
C4_Step ==
    \A request \in Requests :
        (is_whitelisted(request) /\ user_login_failed(request)) =>
            /\ last'.result = "ALLOW"
            /\ ~last'.raised
            /\ last'.sent = <<>>
            /\ NoRowWritten

C4_State ==
    /\ (last.op = "user_login_failed" /\ is_whitelisted(last.request))
          => last.result # "LOCKED_OUT"
    /\ \A r \in Requests : is_whitelisted(r) => ~is_locked(attempts, cfg, r, now)

\* C4: a whitelisted client is never LOCKED_OUT: its user_login_failed returns
\* ALLOW, writes no row and publishes no lockout, whatever the table holds, and
\* is_locked is false for it.
C4_WhitelistedNeverLocked == [][C4_Step]_vars /\ []C4_State

\* C4: a whitelisted client's failure was allowed while the rows of its
\* identity were at the limit.
C4_Witness ==
    /\ last.op = "user_login_failed"
    /\ last.result = "ALLOW"
    /\ is_whitelisted(last.request)
    /\ AtLimit(last.request)


\* ---- C5
\* C5: in every reachable state, whatever the interleaving of concurrent
\* user_login_failed calls, an identity has at most one active row (two
\* concurrent first failures never leave two rows with count 1 each).
C5_AtMostOneActiveRow ==
    \A r \in Requests : Cardinality(ActiveRowsOf(r)) <= 1

\* ---- C6
AllIdle == \A w \in Workers : pc[w] = "idle"

\* C6: when all K concurrent user_login_failed calls of an identity have
\* completed, with no expiry and no reset, the identity's aggregate count is
\* its count before the calls (0, a fresh identity) plus K.
C6_NoLostIncrement ==
    (AllIdle /\ ~expired) =>
        \A r \in Requests :
            streak[r] >= 1 =>
                (/\ RowsOf(r) # {}
                 /\ \A i \in RowsOf(r) :
                        attempts[i].failures_since_start <= streak[r]
                 /\ \E i \in RowsOf(r) :
                        attempts[i].failures_since_start = streak[r])


\* ---- C7
\* The requests of the same identity.
SameIdentity(r1, r2) == Matches(cfg.policy, r1, r2)

C7_Reset ==
    \A request \in Requests :
        (cfg.reset_on_success /\ user_logged_in(request, request.username)) =>
            (RowsOf(request) = {})'

C7_NextFailure ==
    \A request \in Requests :
        (/\ cfg.reset_on_success
         /\ last.op = "user_logged_in"
         /\ SameIdentity(last.request, request)
         /\ ~is_whitelisted(request)
         /\ user_login_failed(request)) =>
            /\ last'.failures_since_start = 1
            /\ cfg.failure_limit > 1 => last'.result = "RECORDED"
            /\ Cardinality(RowsOf(request)') = 1
            /\ \A i \in RowsOf(request)' : attempts'[i].failures_since_start = 1

\* C7: with reset_on_success, user_logged_in leaves no row of the identity,
\* whatever its count was, and the identity's next user_login_failed creates a
\* row with count 1 and is RECORDED when failure_limit > 1.
C7_ResetOnSuccess == [][C7_Reset /\ C7_NextFailure]_vars

\* C7: a success with reset_on_success has just deleted rows of the identity.
C7_Witness ==
    /\ cfg.reset_on_success
    /\ last.op = "user_logged_in"
    /\ last.count >= 1
    /\ RowsOf(last.request) = {}

\* ---- C8
NoStaleRow ==
    \A i \in DOMAIN attempts : now - attempts[i].attempt_time <= CoolOff

C8_FreshAfterExpiry ==
    \A request \in Requests :
        (/\ ~is_whitelisted(request)
         /\ RowsOf(request) # {}
         /\ ActiveRowsOf(request) = {}
         /\ user_login_failed(request)) =>
            /\ last'.failures_since_start = 1
            /\ Cardinality(RowsOf(request)') = 1
            /\ \A i \in RowsOf(request)' :
                  /\ attempts'[i].failures_since_start = 1
                  /\ attempts'[i].attempt_time = now

\* C8: every handler sweeps the expired rows before anything else, so none is
\* left after a call (a step that is no tick of the clock is a call of
\* user_login_failed, user_logged_in or user_logged_out), and a failure arriving after the identity's row expired
\* creates a fresh row with count 1 instead of incrementing the stale count.
C8_SweepFirst == [][(now' = now => NoStaleRow') /\ C8_FreshAfterExpiry]_vars

\* C8: a failure has just swept an expired row and started again at count 1.
C8_Witness ==
    /\ last.op = "user_login_failed"
    /\ last.swept >= 1
    /\ last.failures_since_start = 1
    /\ RowsOf(last.request) # {}

\* ---- C9
\* The rows that survive the sweep of a call at the current time.
ActiveTable ==
    SelectSeq(attempts, LAMBDA r : now - r.attempt_time <= CoolOff)

C9_Step ==
    \A request \in Requests :
        (/\ ~is_whitelisted(request)
         /\ ActiveRowsOf(request) # {}
         /\ user_login_failed(request)) =>
            /\ Len(attempts') = Len(ActiveTable)
            /\ \A i \in DOMAIN ActiveTable :
                  IF Matches(cfg.policy, ActiveTable[i], request)
                  THEN /\ attempts'[i].username = ActiveTable[i].username
                       /\ attempts'[i].ip_address = ActiveTable[i].ip_address
                       /\ attempts'[i].user_agent = ActiveTable[i].user_agent
                       /\ attempts'[i].failures_since_start = 1 + MaxCountOf(request)
                       /\ attempts'[i].attempt_time = now
                       /\ attempts'[i].get_data =
                             ActiveTable[i].get_data \o <<separator, request.get_data>>
                       /\ attempts'[i].post_data =
                             ActiveTable[i].post_data \o <<separator, request.post_data>>
                  ELSE attempts'[i] = ActiveTable[i]

\* C9: an update by user_login_failed leaves the row's username, ip_address
\* and user_agent as they were written at creation, even when the later
\* failure carries other values; the count, the time and the context change.
C9_IdentityFieldsKept == [][C9_Step]_vars

\* C9: a failure has just updated a row created by a request with another
\* username and user agent.
C9_Witness ==
    /\ last.op = "user_login_failed"
    /\ last.failures_since_start >= 2
    /\ \E i \in RowsOf(last.request) :
          /\ attempts[i].failures_since_start = last.failures_since_start
          /\ attempts[i].username # last.request.username
          /\ attempts[i].user_agent # last.request.user_agent

\* ---- C10
C10_Step ==
    user_login_failed(None) =>
        /\ last'.result = "NO_REQUEST"
        /\ ~last'.raised
        /\ last'.sent = <<>>
        /\ NoRowWritten

\* C10: user_login_failed without a request returns without raising, creates
\* or updates no row and publishes no lockout, even when the table holds rows
\* at or above failure_limit.
C10_NoRequestDeclines == [][C10_Step]_vars

\* C10: a call without a request has returned while a row is at the limit.
C10_Witness ==
    /\ last.op = "user_login_failed"
    /\ last.request = None
    /\ ~last.raised
    /\ \E i \in DOMAIN attempts :
          attempts[i].failures_since_start >= cfg.failure_limit


\* ---- C11
\* The write of worker w leaves a row of its identity carrying its count and time.
WriteRecorded(w) ==
    \E i \in DOMAIN attempts' :
        /\ Matches(cfg.policy, attempts'[i], local[w].request)
        /\ attempts'[i].failures_since_start = local[w].failures_since_start
        /\ attempts'[i].attempt_time = local[w].attempt_time

\* C11: a sweep running concurrently with a user_login_failed call never
\* deletes the row the call has read and is about to increment: in every
\* interleaving the call's write records the failure in the table (its update
\* does not apply to zero rows).
C11_WriteNeverLost == [][\A w \in Workers : Write(w) => WriteRecorded(w)]_vars

\* ---- C12
\* C12: the failures_since_start of a row never decreases while the row
\* exists: a step that deletes nothing leaves every row's count unchanged or
\* larger, and a step that deletes rows leaves the others as they were.
C12_CountNeverDecreases ==
    [][IF Len(attempts') >= Len(attempts)
       THEN \A i \in DOMAIN attempts :
               attempts'[i].failures_since_start >= attempts[i].failures_since_start
       ELSE NoRowWritten]_vars


\* ---- C13
\* The lockout event of the last call's attempt.
LockoutOf(call) ==
    [sender |-> "axes", request |-> call.request,
     username |-> call.request.username, ip_address |-> call.request.ip_address]

\* The failure of the last call is in the table.
Persisted(call) ==
    \E i \in RowsOf(call.request) :
        attempts[i].failures_since_start = call.failures_since_start

\* C13: a user_login_failed call that is LOCKED_OUT publishes exactly one
\* lockout event, carrying the request, username and address of the attempt,
\* with the failure persisted and the denial raised; a call that is RECORDED,
\* ALLOW or without a request, and user_logged_in and user_logged_out, publish
\* none and raise nothing.
C13_LockoutPublishedOnce ==
    IF last.result = "LOCKED_OUT"
    THEN /\ last.op = "user_login_failed"
         /\ last.sent = <<LockoutOf(last)>>
         /\ last.raised
         /\ Persisted(last)
    ELSE /\ last.sent = <<>>
         /\ ~last.raised

\* C13: a denied call of bob has published its lockout.
C13_Witness ==
    /\ last.result = "LOCKED_OUT"
    /\ Len(last.sent) = 1
    /\ last.sent[1].username = "bob"
    /\ last.failures_since_start >= cfg.failure_limit


\* ---- C14
\* The open AccessLog rows of a user, and the most recent of them.
OpenLogs(username) ==
    { i \in DOMAIN logs : logs[i].username = username /\ logs[i].logout_time = Null }

LatestOpen(username) ==
    { i \in OpenLogs(username) : \A j \in OpenLogs(username) : j <= i }

LogoutActs(username) ==
    /\ username # ""
    /\ ~cfg.disable_access_log
    /\ user_logged_out(username)

\* C14 as stated: a logout of a known user with access logging enabled stamps
\* the most recent open row of the user only; the user's other open rows
\* stay open.
C14_OnlyLatestStamped ==
    [][\A username \in Users :
          LogoutActs(username) =>
              \A i \in OpenLogs(username) :
                  logs'[i].logout_time =
                      (IF i \in LatestOpen(username) THEN now ELSE Null)]_vars

\* C14, amended: a logout of a known user with access logging enabled stamps
\* every open row of the user with the logout time; when several are open,
\* all of them receive it.
C14_AllOpenStamped ==
    [][\A username \in Users :
          LogoutActs(username) =>
              /\ Len(logs') = Len(logs)
              /\ \A i \in OpenLogs(username) :
                    logs'[i] = [logs[i] EXCEPT !.logout_time = now]]_vars

\* C14: one logout has just stamped two open rows of the user.
C14_Witness ==
    /\ last.op = "user_logged_out"
    /\ last.count = 2
    /\ \E i, j \in DOMAIN logs :
          /\ i # j
          /\ logs[i].username = last.request.username
          /\ logs[j].username = last.request.username
          /\ logs[i].logout_time = now
          /\ logs[j].logout_time = now

\* ---- C15
\* C15: user_logged_out changes no AccessLog row when the username is empty or
\* disable_access_log is set, and never a row of another username or a row
\* that already has a logout time.
C15_LogoutFrame ==
    [][\A username \in Users \cup {""} :
          user_logged_out(username) =>
              /\ Len(logs') = Len(logs)
              /\ (username = "" \/ cfg.disable_access_log) => logs' = logs
              /\ \A i \in DOMAIN logs :
                    (logs[i].username # username \/ logs[i].logout_time # Null)
                        => logs'[i] = logs[i]]_vars

\* C15: a logout has stamped a row while a row of another user stays open and
\* a row closed earlier keeps its time, or it was an anonymous logout or one
\* with disable_access_log that left open rows alone.
C15_Witness ==
    /\ last.op = "user_logged_out"
    /\ \/ /\ last.count = 1
          /\ \E i \in DOMAIN logs :
                /\ logs[i].username # last.request.username
                /\ logs[i].logout_time = Null
       \/ /\ last.count = 0
          /\ (last.request.username = "" \/ cfg.disable_access_log)
          /\ \E i \in DOMAIN logs : logs[i].logout_time = Null

\* ---- C16
\* Row i is as it was, or its logout time, unset before, has been set.
KeptOrClosed(i) ==
    \/ logs'[i] = logs[i]
    \/ /\ logs[i].logout_time = Null
       /\ logs'[i] = [logs[i] EXCEPT !.logout_time = logs'[i].logout_time]

\* C16: the AccessLog is append-only: no step deletes a row or changes the
\* username, address, user agent, time or trusted flag of one; the only change
\* to a row is a logout setting a logout time that was unset.
C16_AppendOnly ==
    [][/\ Len(logs') >= Len(logs)
       /\ \A i \in DOMAIN logs : KeptOrClosed(i)]_vars

\* C16: after logins, a logout and a failure the log holds a closed and an
\* open row.
C16_Witness ==
    /\ Len(logs) = 2
    /\ \E i \in DOMAIN logs : logs[i].logout_time # Null
    /\ \E i \in DOMAIN logs : logs[i].logout_time = Null
    /\ attempts # <<>>
    /\ last.op = "user_login_failed"

\* ---- C17
\* user_logged_in appends exactly the login row of the request.
AppendsLogin(request) ==
    logs' = Append(logs, [username |-> request.username,
                          ip_address |-> request.ip_address,
                          user_agent |-> request.user_agent,
                          http_accept |-> request.http_accept,
                          path_info |-> request.path_info,
                          attempt_time |-> now,
                          trusted |-> TRUE,
                          logout_time |-> Null])

\* C17: user_logged_in appends exactly one AccessLog row (trusted, no logout
\* time) when access logging is enabled, and none when disable_access_log or
\* disable_success_access_log is set.
C17_LoginLogged ==
    [][\A request \in LogLogins :
          user_logged_in(request, request.username) =>
              IF cfg.disable_access_log \/ cfg.disable_success_access_log
              THEN logs' = logs
              ELSE AppendsLogin(request)]_vars


\* ---- C18
\* The call reaches the query: the sweep always runs, the read and the write
\* only for a request that is present and not whitelisted.
Reaches(request, fault) ==
    fault = "sweep" \/ (request # None /\ ~is_whitelisted(request))

C18_Step ==
    \A request \in Requests \cup {None}, fault \in Queries :
        (Reaches(request, fault) /\ user_login_failed_store_error(request, fault)) =>
            /\ last'.result = "STORE_ERROR"
            /\ last'.raised
            /\ last'.sent = <<>>
            /\ NoRowWritten

\* The published lockout is that of a failure the table holds.
C18_State ==
    last.sent # <<>> => (last.result = "LOCKED_OUT" /\ Persisted(last))

\* C18: when the sweep, the read or the insert/update of user_login_failed
\* fails, the call ends with that error: its result is neither ALLOW nor
\* RECORDED, it writes no row and publishes no lockout; a lockout is only ever
\* published for a failure that was persisted.
C18_StoreErrorPropagates == [][C18_Step]_vars /\ []C18_State

\* C18: the write failed for a client whose row is one short of the limit: the
\* call ended with the error, the row is as it was and nothing was published.
C18_Witness ==
    /\ last.result = "STORE_ERROR"
    /\ last.raised
    /\ last.sent = <<>>
    /\ ~is_whitelisted(last.request)
    /\ last.request # None
    /\ MaxCountOf(last.request) >= 1
    /\ MaxCountOf(last.request) + 1 = cfg.failure_limit

\* ---- C19
C19_LoginKeeps ==
    \A request \in Requests :
        (~cfg.reset_on_success /\ user_logged_in(request, request.username)) =>
            /\ attempts' = ActiveTable
            /\ \A r \in Requests : AtLimit(r) => AtLimit(r)'

C19_StillLocked ==
    \A request \in Requests :
        (/\ ~cfg.reset_on_success
         /\ last.op = "user_logged_in"
         /\ SameIdentity(last.request, request)
         /\ ~is_whitelisted(request)
         /\ AtLimit(request)
         /\ user_login_failed(request)) =>
            (last'.result = "LOCKED_OUT" /\ last'.raised)

C19_LogoutKeeps ==
    \A username \in Users \cup {""} :
        user_logged_out(username) => attempts' = ActiveTable

\* C19: with reset_on_success off, user_logged_in leaves the table as its
\* sweep leaves it, so an identity at or above the limit is still LOCKED_OUT
\* on its next failure; user_logged_out leaves the table as its sweep leaves
\* it under every setting.
C19_SessionsKeepAttempts ==
    [][C19_LoginKeeps /\ C19_StillLocked /\ C19_LogoutKeeps]_vars

\* C19: a client at the limit has just logged in with reset_on_success off and
\* its row is still at the limit.
C19_Witness ==
    /\ ~cfg.reset_on_success
    /\ last.op = "user_logged_in"
    /\ ~is_whitelisted(last.request)
    /\ AtLimit(last.request)

\* ---- C20
\* The identity's row holds the new count and the time of this attempt.
C20_Written(request) ==
    /\ last'.failures_since_start = 1 + MaxCountOf(request)
    /\ \E i \in DOMAIN attempts' :
          /\ Matches(cfg.policy, attempts'[i], request)
          /\ attempts'[i].failures_since_start = 1 + MaxCountOf(request)
          /\ attempts'[i].attempt_time = now
    /\ AtLimit(request)'

\* Every row of the identity carries the time of this attempt and a count
\* above the one it had.
C20_Refreshed(request) ==
    \A i \in DOMAIN attempts' :
        Matches(cfg.policy, attempts'[i], request) =>
            /\ attempts'[i].attempt_time = now
            /\ attempts'[i].failures_since_start > MaxCountOf(request)

C20_Step ==
    \A request \in Requests :
        (~is_whitelisted(request) /\ user_login_failed(request)) =>
            /\ last'.result = "LOCKED_OUT" => C20_Written(request)
            /\ AtLimit(request) =>
                  (last'.result = "LOCKED_OUT" /\ C20_Refreshed(request))

\* C20: a LOCKED_OUT user_login_failed still writes the failure: the
\* identity's row holds new_count, which may pass the limit, and the time of
\* this attempt; so a locked identity whose row is still inside the cool off
\* period when it fails again is denied again with its row refreshed.
C20_LockedOutStillRecorded == [][C20_Step]_vars

\* C20: a locked identity failed again after time passed: denied, its count
\* past the limit and its row carrying the time of this last attempt.
C20_Witness ==
    /\ last.result = "LOCKED_OUT"
    /\ last.failures_since_start > cfg.failure_limit
    /\ now >= 1
    /\ \E i \in RowsOf(last.request) :
          /\ attempts[i].failures_since_start = last.failures_since_start
          /\ attempts[i].attempt_time = now
          /\ streak[last.request] > cfg.failure_limit

==========================================================================
